---- MODULE Spec2Model ----
(***************************************************************************)
(* Bar-sequential backtest engine (engine.py), the 9/21 EMA crossover      *)
(* strategy it consumes (strategy.py) and the walk-forward optimizer       *)
(* (forward_test.py).                                                      *)
(*                                                                         *)
(* Numbers.  Prices, indicator values and money are integers.  The float   *)
(* parameters of the strategy are kept as scaled integers: multipliers in  *)
(* tenths (MultScale), risk_per_trade in thousandths (RiskScale).  Every   *)
(* comparison of the source is cross-multiplied so that it is exact; the   *)
(* bars fed to the model have atr_14 a multiple of 4 and the multipliers   *)
(* are multiples of 0.5, so stop and target prices are exact integers.     *)
(* A DataFrame is a sequence of rows; row labels (bar.name, the timestamp) *)
(* are the 0-based positions of the rows in the full series.               *)
(***************************************************************************)
EXTENDS Integers, Sequences, FiniteSets, TLC

VARIABLES
    data,              \* the full bar series produced by the data pipeline
    frame,             \* [lo, hi]: the rows data[lo..hi) the running loop iterates over
    pc,                \* control point of the program
    idx,               \* loop variable of the bar loop
    account_value,     \* Engine.account_value
    current_position,  \* Engine.current_position (NoPos models None)
    trades,            \* Engine.trades
    equity_curve,      \* Engine.equity_curve
    strategy,          \* the Strategy instance: tunable attributes and highest_profit
    lastCall,          \* rows read by the most recent should_enter / should_exit call
    opened,            \* history: number of _enter_trade calls so far
    error,             \* the exception that ended the program, "none" while it runs
    \* two runs of the Engine over a series and over a prefix of it
    run_no,            \* 0: a single run; 1: the run over the prefix; 2: the run over the series
    first_trades,      \* trades of run 1
    first_equity,      \* equity_curve of run 1
    \* ForwardTestEngine
    in_sample_bars, out_sample_bars, step_size,
    param_grid,        \* sequence of <<attribute name, sequence of values>>
    window_start, window_num,
    span,              \* is_start, is_end, oos_start, oos_end of the current window
    all_windows, oos_trades,
    trial,             \* position in param_combinations of the trial being run
    best_score, best_params,   \* best_params: <<>> is None, <<p>> is the dict p
    phase,             \* "is": a grid-search trial runs; "oos": the out-of-sample run
    run_trades,        \* the local list trades of _run_single_backtest
    tested,            \* history: params of the trials started by this _optimize_parameters call
    scores             \* history: the score each finished trial of this call obtained

engVars == <<account_value, current_position, trades, equity_curve, strategy,
             lastCall, opened>>
harnessVars == <<run_no, first_trades, first_equity>>
cfgVars == <<in_sample_bars, out_sample_bars, step_size, param_grid>>
scanVars == <<window_start, window_num, span, all_windows, oos_trades>>
optVars == <<trial, best_score, best_params, phase, tested, scores>>
wfVars == <<cfgVars, scanVars, optVars, run_trades>>

vars == <<data, frame, pc, idx, error, engVars, harnessVars, wfVars>>

----------------------------------------------------------------------------
(* Bounds of the model *)

TailLen == 3           \* number of freely chosen bars after the indicator warm-up
InSampleLen == 64      \* in_sample_bars of a walk-forward that fits the series
OutSampleLen == 62     \* out_sample_bars of a walk-forward that fits the series
ExtraBars == 1         \* rows of the series beyond the first window
MaxWindows == 2        \* windows after which a scan is no longer followed
MaxTrades == 3         \* longest trade list handed to the metrics of a sub-run

----------------------------------------------------------------------------
(* Program constants *)

MultScale == 10                \* multipliers are held in tenths
RiskScale == 1000              \* risk_per_trade is held in thousandths
NaN == -999                    \* pandas NaN of an indicator that is not yet defined
initial_capital == 100000
point_value == 10              \* symbol_specs['EURUSD']['point_value']
WarmUpBars == 60               \* should_enter: if idx < 60: return False
CrossLookback == 6             \* range(0, 6)
pullback_lookback == 3
min_atr_multiplier == 10       \* 1.0
trailing_stop_activation == 12 \* 1.2
trailing_stop_distance == 12   \* 1.2
OverextendedLimit == 20        \* distance_from_ema9 < 2.0
MinSeparation == 1             \* ema_separation > 0.1
AtrValidFrom == 13             \* rolling(window=14): rows 0..12 are NaN
SmaValidFrom == 49             \* rolling(window=50)
AtrAvgValidFrom == 62          \* rolling(50) of atr_14
MomentumValidFrom == 10        \* shift(10)

Max(a, b) == IF a >= b THEN a ELSE b
Min(a, b) == IF a <= b THEN a ELSE b

\* Python int(): truncation toward zero of a / b, b > 0
TruncDiv(a, b) == IF a >= 0 THEN a \div b ELSE -((-a) \div b)

----------------------------------------------------------------------------
(* Bar series *)

Bar(c, h, l, e9, e21, s50, atr, avg, mom) ==
    [close |-> c, high |-> h, low |-> l, ema_9 |-> e9, ema_21 |-> e21,
     sma_50 |-> s50, atr_14 |-> atr, atr_avg |-> avg, momentum_10 |-> mom]

\* A quiet bar at row r of the series; the rolling indicators are NaN on the
\* rows where the pipeline's windows are not yet full.
QuietBar(r) ==
    Bar(100, 102, 98, 99, 99,
        IF r < SmaValidFrom THEN NaN ELSE 100,
        IF r < AtrValidFrom THEN NaN ELSE 4,
        IF r < AtrAvgValidFrom THEN NaN ELSE 4,
        IF r < MomentumValidFrom THEN NaN ELSE 0)

\* The bars the free part of a series is drawn from.
SignalBar == Bar(104, 105, 102, 102, 101, 100, 4, 4, 4)  \* bullish crossover, all filters pass
DipBar    == Bar(96, 103, 93, 103, 101, 100, 4, 4, -2)   \* low pierces a stop at 94
RallyBar  == Bar(117, 120, 112, 106, 103, 100, 4, 4, 8)  \* high reaches a target at 119
DriftBar  == Bar(110, 112, 108, 105, 103, 100, 4, 4, 6)  \* nothing triggers
SpikeBar  == Bar(100, 120, 93, 105, 103, 100, 4, 4, 0)   \* pierces stop and target at once
BearBar   == Bar(101, 103, 99, 100, 101, 100, 4, 4, -3)  \* 9 EMA back below 21 EMA
TrailBar  == Bar(117, 118, 112, 106, 103, 100, 4, 4, 8)  \* low touches the trailing stop

\* a close that activates the trailing stop with no exit: the low stays above
\* the trailing level, the high below the target
PeakBar == Bar(117, 118, 113, 106, 103, 100, 4, 4, 8)

\* a fall of the close after a peak: the low is under the trailing level and
\* the 9 EMA is back below the 21 EMA on the same bar
SlumpBar == Bar(101, 103, 96, 100, 101, 100, 4, 4, -3)

\* an entry signal in a market with an ATR of 24: the stop is 60 points away
WideAtr == 24
WideBar == Bar(110, 111, 108, 105, 101, 100, WideAtr, WideAtr, 4)

TailBars == {SignalBar, DipBar, RallyBar, DriftBar, SpikeBar, BearBar, TrailBar}

\* Rows r0, r0+1, ... of quiet bars
QuietRows(r0, n) == [i \in 1..n |-> QuietBar(r0 + i - 1)]

----------------------------------------------------------------------------
(* DataFrame access.  A frame f = [lo, hi] is data.iloc[lo:hi]. *)

FrameLen(f) == f.hi - f.lo

\* Position of the row that iloc[k] reads in a frame of n rows (negative k
\* counts from the end, as pandas does)
RowPos(k, n) == IF k < 0 THEN k + n ELSE k

ILoc(f, k) == data[f.lo + RowPos(k, FrameLen(f)) + 1]

\* bar.name of the row iloc[k] reads
Label(f, k) == f.lo + RowPos(k, FrameLen(f))

IsNa(x) == x = NaN
----------------------------------------------------------------------------
(* Strategy (strategy.py) *)

use_trend_filter == TRUE
use_volatility_filter == TRUE
use_momentum_filter == TRUE
use_ema_slope_filter == TRUE
use_pullback_filter == TRUE
use_trailing_stop == TRUE

\* A new Strategy(): the class attributes and __init__
NewStrategy ==
    [risk_per_trade |-> 5, atr_stop_multiplier |-> 25, reward_risk_ratio |-> 15,
     highest_profit |-> 0]

NoPos == [entry_time |-> -1, entry_price |-> 0, position_size |-> 0,
          stop_loss |-> 0, take_profit |-> 0, entry_equity |-> 0]

IsOpen(pos) == pos # NoPos

HasNaIndicator(cur) ==
    \/ IsNa(cur.ema_9) \/ IsNa(cur.ema_21) \/ IsNa(cur.atr_14)
    \/ IsNa(cur.sma_50) \/ IsNa(cur.atr_avg)

\* prev_prev['ema_9'] <= prev_prev['ema_21'] and prev['ema_9'] > prev['ema_21']
CrossedAt(f, i, lookback) ==
    /\ ILoc(f, i - lookback - 1).ema_9 <= ILoc(f, i - lookback - 1).ema_21
    /\ ILoc(f, i - lookback).ema_9 > ILoc(f, i - lookback).ema_21

\* The lookbacks the crossover loop visits: it stops at the first crossover
\* and breaks when idx - lookback < 0
CrossVisited(f, i) ==
    {lb \in 0..(CrossLookback - 1) :
        /\ i - lb >= 0
        /\ \A k \in 0..(lb - 1) : ~CrossedAt(f, i, k)}

RecentCrossover(f, i) ==
    /\ ILoc(f, i).ema_9 > ILoc(f, i).ema_21
    /\ \E lb \in CrossVisited(f, i) : CrossedAt(f, i, lb)

TrendOk(cur) ==
    use_trend_filter => (cur.close > cur.sma_50 /\ cur.ema_21 > cur.sma_50)

VolatilityOk(cur) ==
    use_volatility_filter =>
        (cur.atr_14 * MultScale >= cur.atr_avg * min_atr_multiplier)

\* a comparison with a NaN momentum is False
MomentumOk(cur, prev) ==
    use_momentum_filter =>
        /\ ~IsNa(cur.momentum_10) /\ cur.momentum_10 > 0
        /\ ~IsNa(prev.momentum_10) /\ cur.momentum_10 > prev.momentum_10

SlopeOk(cur, prev) ==
    use_ema_slope_filter => (cur.ema_9 > prev.ema_9 /\ cur.ema_21 > prev.ema_21)

\* past_bar['low'] < past_bar['ema_9'] or past_bar['close'] < close of the bar before it
PulledBackAt(f, i, lookback) ==
    \/ ILoc(f, i - lookback).low < ILoc(f, i - lookback).ema_9
    \/ ILoc(f, i - lookback).close < ILoc(f, i - lookback - 1).close

PullbackVisited(f, i) ==
    {lb \in 1..pullback_lookback :
        /\ i - lb >= 0
        /\ \A k \in 1..(lb - 1) : ~PulledBackAt(f, i, k)}

HadPullback(f, i) ==
    use_pullback_filter => \E lb \in PullbackVisited(f, i) : PulledBackAt(f, i, lb)

\* price above both EMAs and within 2 ATRs of the 9 EMA (atr_14 > 0)
ConfirmationOk(cur) ==
    /\ cur.close > cur.ema_9 /\ cur.close > cur.ema_21
    /\ (cur.close - cur.ema_9) * MultScale < OverextendedLimit * cur.atr_14

SeparationOk(cur) ==
    (cur.ema_9 - cur.ema_21) * MultScale > MinSeparation * cur.atr_14

\* should_enter reached the crossover detection / the pullback filter
ReachedCrossover(f, i) == i >= WarmUpBars /\ ~HasNaIndicator(ILoc(f, i))

ReachedPullback(f, i) ==
    /\ ReachedCrossover(f, i)
    /\ RecentCrossover(f, i)
    /\ TrendOk(ILoc(f, i))
    /\ VolatilityOk(ILoc(f, i))
    /\ MomentumOk(ILoc(f, i), ILoc(f, i - 1))
    /\ SlopeOk(ILoc(f, i), ILoc(f, i - 1))

should_enter(f, i) ==
    /\ ReachedPullback(f, i)
    /\ HadPullback(f, i)
    /\ ConfirmationOk(ILoc(f, i))
    /\ SeparationOk(ILoc(f, i))

\* Positions of the rows of the frame a should_enter(data, idx) call reads
EnterReads(f, i) ==
    LET n == FrameLen(f) IN
    IF i < WarmUpBars THEN {}
    ELSE {RowPos(i, n), RowPos(i - 1, n)}
         \cup (IF ReachedCrossover(f, i) /\ ILoc(f, i).ema_9 > ILoc(f, i).ema_21
               THEN UNION {{RowPos(i - lb, n), RowPos(i - lb - 1, n)} :
                           lb \in CrossVisited(f, i)}
               ELSE {})
         \cup (IF ReachedPullback(f, i) /\ use_pullback_filter
               THEN UNION {{RowPos(i - lb, n), RowPos(i - lb - 1, n)} :
                           lb \in PullbackVisited(f, i)}
               ELSE {})

\* highest_profit after a should_enter call
EnterMemory(st, f, i) ==
    IF should_enter(f, i) THEN [st EXCEPT !.highest_profit = 0] ELSE st

current_profit(cur, pos) ==
    (cur.close - pos.entry_price) * pos.position_size * point_value

\* highest_profit after the update at the top of should_exit
ExitMemory(st, cur, pos) ==
    IF current_profit(cur, pos) > st.highest_profit
    THEN [st EXCEPT !.highest_profit = current_profit(cur, pos)]
    ELSE st

risk_amount(pos) ==
    (pos.entry_price - pos.stop_loss) * pos.position_size * point_value

\* trailing stop active, valid and hit; the level is close - atr_14 * 1.2,
\* compared in tenths (a NaN atr_14 makes every comparison False)
TrailingStopHit(st, cur, pos) ==
    /\ use_trailing_stop
    /\ st.highest_profit * MultScale > risk_amount(pos) * trailing_stop_activation
    /\ ~IsNa(cur.atr_14)
    /\ cur.close * MultScale - cur.atr_14 * trailing_stop_distance
           > pos.stop_loss * MultScale
    /\ cur.low * MultScale
           <= cur.close * MultScale - cur.atr_14 * trailing_stop_distance

BearishCrossover(cur, prev) ==
    prev.ema_9 >= prev.ema_21 /\ cur.ema_9 < cur.ema_21

\* Variant: the target is tested before the stop
ExitReasonTargetFirst(st, cur, prev, pos) ==
    IF cur.high >= pos.take_profit THEN "take_profit"
    ELSE IF cur.low <= pos.stop_loss THEN "stop_loss"
    ELSE IF TrailingStopHit(st, cur, pos) THEN "trailing_stop"
    ELSE IF BearishCrossover(cur, prev) THEN "opposite_crossover"
    ELSE "none"

\* The reason should_exit returns, "none" for (False, None); st is the
\* strategy after the highest_profit update
ExitReason(st, cur, prev, pos) ==
    IF cur.low <= pos.stop_loss THEN "stop_loss"
    ELSE IF cur.high >= pos.take_profit THEN "take_profit"
    ELSE IF TrailingStopHit(st, cur, pos) THEN "trailing_stop"
    ELSE IF BearishCrossover(cur, prev) THEN "opposite_crossover"
    ELSE "none"

\* Variant: current is read one row too far, when there is such a row
should_exit_peeking(st, f, i, pos) ==
    LET j == IF i + 1 < FrameLen(f) THEN i + 1 ELSE i IN
    ExitReason(ExitMemory(st, ILoc(f, j), pos), ILoc(f, j), ILoc(f, j - 1), pos)

should_exit(st, f, i, pos) ==
    ExitReason(ExitMemory(st, ILoc(f, i), pos), ILoc(f, i), ILoc(f, i - 1), pos)

ExitReads(f, i) == {RowPos(i, FrameLen(f)), RowPos(i - 1, FrameLen(f))}

\* int(risk_amount / (stop_distance * point_value)) raises: the quotient is
\* NaN (ValueError) or, with a stop distance of 0, infinite (OverflowError)
SizeFails(st, cur) == IsNa(cur.atr_14) \/ cur.atr_14 * st.atr_stop_multiplier = 0

SizeError(st, cur) == IF IsNa(cur.atr_14) THEN "ValueError" ELSE "OverflowError"

\* Variant: the stop distance is not converted to money by the point value
position_size_in_points(st, cur, account) ==
    TruncDiv(account * st.risk_per_trade * MultScale,
             RiskScale * cur.atr_14 * st.atr_stop_multiplier)

\* position_size = int(risk_amount / (stop_distance * point_value)), with
\* risk_amount = account_value * risk_per_trade and
\* stop_distance = atr_14 * atr_stop_multiplier
position_size(st, cur, account) ==
    TruncDiv(account * st.risk_per_trade * MultScale,
             RiskScale * cur.atr_14 * st.atr_stop_multiplier * point_value)

\* return max(1, position_size)
calculate_position_size(st, cur, account) == Max(1, position_size(st, cur, account))

----------------------------------------------------------------------------
(* Engine (engine.py) *)

\* Variant: the ATR is not scaled by atr_stop_multiplier
stop_distance_unscaled(st, cur) == cur.atr_14

\* bar['atr_14'] * self.strategy.atr_stop_multiplier
stop_distance(st, cur) == (cur.atr_14 * st.atr_stop_multiplier) \div MultScale

\* The position _enter_trade stores
EnteredPosition(st, f, i, account) ==
    LET cur == ILoc(f, i) IN
    [entry_time    |-> Label(f, i),
     entry_price   |-> cur.close,
     position_size |-> calculate_position_size(st, cur, account),
     stop_loss     |-> cur.close - stop_distance(st, cur),
     take_profit   |-> cur.close
                       + (stop_distance(st, cur) * st.reward_risk_ratio) \div MultScale,
     entry_equity  |-> account]

\* Variant: every exit is priced at the close of the bar
exit_price_at_close(f, i, pos, reason) == ILoc(f, i).close

\* Determine exit price based on reason
exit_price(f, i, pos, reason) ==
    IF reason = "stop_loss" THEN pos.stop_loss
    ELSE IF reason = "take_profit" THEN pos.take_profit
    ELSE ILoc(f, i).close

\* Variant: the price change is not scaled by the point value
pnl_in_points(f, i, pos, reason) ==
    (exit_price(f, i, pos, reason) - pos.entry_price) * pos.position_size

\* Calculate P&L
pnl(f, i, pos, reason) ==
    (exit_price(f, i, pos, reason) - pos.entry_price) * pos.position_size * point_value

\* The trade record _exit_trade appends; pnl_pct is the exact ratio
\* pnl * 100 / entry_equity
TradeRecord(f, i, pos, reason, account) ==
    [entry_time    |-> pos.entry_time,
     exit_time     |-> Label(f, i),
     entry_price   |-> pos.entry_price,
     exit_price    |-> exit_price(f, i, pos, reason),
     position_size |-> pos.position_size,
     pnl           |-> pnl(f, i, pos, reason),
     pnl_pct       |-> [num |-> pnl(f, i, pos, reason) * 100, den |-> pos.entry_equity],
     exit_reason   |-> reason,
     equity_after  |-> account + pnl(f, i, pos, reason)]

\* Variant: the point is taken after the exit/entry decision of the bar
EquityPointAfterDecision(f, i, account, pos) ==
    LET reason == IF IsOpen(pos) THEN should_exit(strategy, f, i, pos) ELSE "none"
        exits  == IsOpen(pos) /\ reason # "none"
        enters == ~IsOpen(pos) /\ should_enter(f, i)
    IN  [timestamp |-> Label(f, i),
         equity |-> IF exits THEN account + pnl(f, i, pos, reason) ELSE account,
         position |-> IF exits THEN 0
                      ELSE IF enters \/ IsOpen(pos) THEN 1 ELSE 0]

\* the equity point of bar i: the account value and the position flag at the
\* top of the loop body
EquityPoint(f, i, account, pos) ==
    [timestamp |-> Label(f, i), equity |-> account,
     position |-> IF IsOpen(pos) THEN 1 ELSE 0]

\* Variant: the entry check is a plain if, tried whatever the position
EntryBranchAlways(pos) == TRUE

\* the elif of the bar loop: the entry branch is tried only with no position open
EntryBranch(pos) == ~IsOpen(pos)

\* Variant: _exit_trade without the account update
ExitTradeKeepsAccount(f, i, reason) ==
    /\ account_value' = account_value
    /\ trades' = Append(trades, TradeRecord(f, i, current_position, reason, account_value))
    /\ current_position' = NoPos

\* Variant: _exit_trade keeps only the latest trade in the list
ExitTradeKeepsLatest(f, i, reason) ==
    /\ account_value' = account_value + pnl(f, i, current_position, reason)
    /\ trades' = <<TradeRecord(f, i, current_position, reason, account_value)>>
    /\ current_position' = NoPos

\* _exit_trade: account update, trade record, position cleared
ExitTrade(f, i, reason) ==
    /\ account_value' = account_value + pnl(f, i, current_position, reason)
    /\ trades' = Append(trades, TradeRecord(f, i, current_position, reason, account_value))
    /\ current_position' = NoPos

\* _enter_trade
EnterTrade(f, i) ==
    /\ current_position' = EnteredPosition(strategy, f, i, account_value)
    /\ opened' = opened + 1

\* Variant: the equity point is recorded only on bars with no position open
RecordEquityWhenFlat(f, i) ==
    equity_curve' = IF IsOpen(current_position) THEN equity_curve
                    ELSE Append(equity_curve,
                                EquityPoint(f, i, account_value, current_position))

\* Record equity at each bar
RecordEquity(f, i) ==
    equity_curve' = Append(equity_curve, EquityPoint(f, i, account_value, current_position))

\* One iteration of the bar loop of run_backtest with a position open and
\* should_exit returning True
BarExit ==
    /\ pc = "run" /\ idx < FrameLen(frame)
    /\ IsOpen(current_position)
    /\ should_exit(strategy, frame, idx, current_position) # "none"
    /\ RecordEquity(frame, idx)
    /\ strategy' = ExitMemory(strategy, ILoc(frame, idx), current_position)
    /\ lastCall' = [fn |-> "should_exit", idx |-> idx, rows |-> ExitReads(frame, idx)]
    /\ ExitTrade(frame, idx, should_exit(strategy, frame, idx, current_position))
    /\ idx' = idx + 1
    /\ UNCHANGED <<data, frame, pc, opened, error, harnessVars, wfVars>>

\* ... with a position open and should_exit returning False
BarHold ==
    /\ pc = "run" /\ idx < FrameLen(frame)
    /\ IsOpen(current_position)
    /\ should_exit(strategy, frame, idx, current_position) = "none"
    /\ RecordEquity(frame, idx)
    /\ strategy' = ExitMemory(strategy, ILoc(frame, idx), current_position)
    /\ lastCall' = [fn |-> "should_exit", idx |-> idx, rows |-> ExitReads(frame, idx)]
    /\ idx' = idx + 1
    /\ UNCHANGED <<data, frame, pc, account_value, current_position, trades, opened,
                   error, harnessVars, wfVars>>

\* ... with no position open and should_enter returning True
\* (calculate_position_size does not raise here: the Strategy keeps its
\* atr_stop_multiplier of 2.5 and should_enter has refused an atr_14 that is
\* NaN or 0)
BarEnter ==
    /\ pc = "run" /\ idx < FrameLen(frame)
    /\ EntryBranch(current_position)
    /\ should_enter(frame, idx)
    /\ RecordEquity(frame, idx)
    /\ strategy' = EnterMemory(strategy, frame, idx)
    /\ lastCall' = [fn |-> "should_enter", idx |-> idx, rows |-> EnterReads(frame, idx)]
    /\ EnterTrade(frame, idx)
    /\ idx' = idx + 1
    /\ UNCHANGED <<data, frame, pc, account_value, trades, error, harnessVars, wfVars>>

\* ... with no position open and should_enter returning False
BarIdle ==
    /\ pc = "run" /\ idx < FrameLen(frame)
    /\ EntryBranch(current_position)
    /\ ~should_enter(frame, idx)
    /\ RecordEquity(frame, idx)
    /\ strategy' = EnterMemory(strategy, frame, idx)
    /\ lastCall' = [fn |-> "should_enter", idx |-> idx, rows |-> EnterReads(frame, idx)]
    /\ idx' = idx + 1
    /\ UNCHANGED <<data, frame, pc, account_value, current_position, trades, opened,
                   error, harnessVars, wfVars>>

\* Variant: the run ends without closing the open position
CloseAtEndSkipped ==
    /\ pc = "run" /\ idx = FrameLen(frame)
    /\ IsOpen(current_position)
    /\ pc' = "done"
    /\ UNCHANGED <<data, frame, idx, error, engVars, harnessVars, wfVars>>

\* After the loop: a position still open is closed on the last bar
CloseAtEnd ==
    /\ pc = "run" /\ idx = FrameLen(frame)
    /\ IsOpen(current_position)
    /\ ExitTrade(frame, FrameLen(frame) - 1, "end_of_data")
    /\ pc' = "done"
    /\ UNCHANGED <<data, frame, idx, equity_curve, strategy, lastCall, opened,
                   error, harnessVars, wfVars>>

\* After the loop with no position open
Finish ==
    /\ pc = "run" /\ idx = FrameLen(frame)
    /\ ~IsOpen(current_position)
    /\ pc' = "done"
    /\ UNCHANGED <<data, frame, idx, error, engVars, harnessVars, wfVars>>

NoCall == [fn |-> "none", idx |-> 0, rows |-> {}]

NoSpan == [is_start |-> 0, is_end |-> 0, oos_start |-> 0, oos_end |-> 0]

NegInf == [num |-> -1, den |-> 0]      \* -float('inf')

\* Engine.__init__ with a new Strategy()
NewEngine ==
    /\ account_value = initial_capital
    /\ current_position = NoPos
    /\ trades = <<>>
    /\ equity_curve = <<>>
    /\ strategy = NewStrategy
    /\ lastCall = NoCall
    /\ opened = 0
    /\ error = "none"

\* The walk-forward attributes while no walk-forward runs
NoWalkForward ==
    /\ in_sample_bars = 0 /\ out_sample_bars = 0 /\ step_size = 0
    /\ param_grid = <<>>
    /\ window_start = 0 /\ window_num = 1
    /\ span = NoSpan
    /\ all_windows = <<>> /\ oos_trades = <<>>
    /\ trial = 0 /\ best_score = NegInf /\ best_params = <<>>
    /\ phase = "none"
    /\ run_trades = <<>>
    /\ tested = <<>> /\ scores = <<>>

\* The series of a backtest: the warm-up rows followed by TailLen free bars
Series == {QuietRows(0, AtrAvgValidFrom) \o tail : tail \in [1..TailLen -> TailBars]}

\* The row of the file whose high and low fields are missing
GapRow == SmaValidFrom + 1

\* The series the pipeline makes of a file with that row incomplete: the true
\* range of the row is NaN, so atr_14 is NaN on every row whose 14-row window
\* holds it and atr_avg on every row whose 50-row window holds such an atr_14
Gapped(s) ==
    [r \in 1..Len(s) |->
        IF r - 1 = GapRow
        THEN [s[r] EXCEPT !.high = NaN, !.low = NaN, !.atr_14 = NaN, !.atr_avg = NaN]
        ELSE IF r - 1 > GapRow /\ r - 1 <= GapRow + AtrValidFrom
        THEN [s[r] EXCEPT !.atr_14 = NaN, !.atr_avg = NaN]
        ELSE IF r - 1 > GapRow /\ r - 1 <= GapRow + AtrAvgValidFrom
        THEN [s[r] EXCEPT !.atr_avg = NaN]
        ELSE s[r]]

GapSeries == {Gapped(s) : s \in Series}

\* A series of a market whose ATR is WideAtr on every row where it is defined
Widened(s) ==
    [r \in 1..Len(s) |->
        [s[r] EXCEPT !.atr_14  = IF IsNa(@) THEN @ ELSE WideAtr,
                     !.atr_avg = IF IsNa(@) THEN @ ELSE WideAtr]]

\* ... with the entry signal on the first row past the warm-up
WideSeries ==
    {Widened(QuietRows(0, AtrAvgValidFrom) \o <<WideBar>> \o tail) :
        tail \in [1..(TailLen - 1) -> {SignalBar, DriftBar, BearBar}]}

\* A series with an entry on the first row past the warm-up and a peak of
\* the close on the next
PeakSeries ==
    {QuietRows(0, AtrAvgValidFrom) \o <<SignalBar, PeakBar>> \o tail :
        tail \in [1..(TailLen - 2) -> TailBars \cup {SlumpBar}]}

\* The contents of EURUSD5.csv: a series, a series with a gap, a series of a
\* wide market, a series with a peak, or no row at all
Files == Series \cup GapSeries \cup WideSeries \cup PeakSeries \cup {<<>>}

\* pipeline.load_data_local() on a file with rows: data = pipeline.data
LoadData ==
    /\ pc = "load" /\ Len(data) > 0
    /\ pc' = "run"
    /\ UNCHANGED <<data, frame, idx, error, engVars, harnessVars, wfVars>>

\* pipeline.load_data_local() on a file with no row: pd.read_csv raises
\* pandas.errors.EmptyDataError, which leaves run_backtest
LoadFail ==
    /\ pc = "load" /\ Len(data) = 0
    /\ pc' = "error"
    /\ error' = "EmptyDataError"
    /\ UNCHANGED <<data, frame, idx, engVars, harnessVars, wfVars>>

\* Engine(strategy=Strategy(), initial_capital=100000) at the top of run_backtest
Init ==
    /\ data \in Files
    /\ frame = [lo |-> 0, hi |-> Len(data)]
    /\ pc = "load"
    /\ idx = 0
    /\ NewEngine
    /\ run_no = 0 /\ first_trades = <<>> /\ first_equity = <<>>
    /\ NoWalkForward

\* the bar loop of run_backtest and the close after it
BarLoop == BarExit \/ BarHold \/ BarEnter \/ BarIdle \/ CloseAtEnd \/ Finish

Next == LoadData \/ LoadFail \/ BarLoop

Spec == Init /\ [][Next]_vars

----------------------------------------------------------------------------
(* Two runs, each with a new Engine and a new Strategy: the first over the  *)
(* first cut rows of a series, the second over the whole series.            *)

\* The bars the free part of these series is drawn from
PrefixBars == {SignalBar, DipBar, DriftBar, BearBar}

PrefixSeries ==
    {QuietRows(0, AtrAvgValidFrom) \o tail : tail \in [1..TailLen -> PrefixBars]}

\* The cuts tried: one row, and every cut from the end of the warm-up on
Cuts(n) == {1} \cup (AtrAvgValidFrom..n)

InitPrefix ==
    /\ data \in PrefixSeries
    /\ \E cut \in Cuts(Len(data)) : frame = [lo |-> 0, hi |-> cut]
    /\ pc = "run"
    /\ idx = 0
    /\ NewEngine
    /\ run_no = 1 /\ first_trades = <<>> /\ first_equity = <<>>
    /\ NoWalkForward

\* The first run is over: keep its output and start the second run
SecondRun ==
    /\ pc = "done" /\ run_no = 1
    /\ first_trades' = trades
    /\ first_equity' = equity_curve
    /\ run_no' = 2
    /\ frame' = [lo |-> 0, hi |-> Len(data)]
    /\ pc' = "run"
    /\ idx' = 0
    /\ account_value' = initial_capital
    /\ current_position' = NoPos
    /\ trades' = <<>>
    /\ equity_curve' = <<>>
    /\ strategy' = NewStrategy
    /\ lastCall' = NoCall
    /\ opened' = 0
    /\ UNCHANGED <<data, error, wfVars>>

NextPrefix == BarLoop \/ SecondRun

SpecPrefix == InitPrefix /\ [][NextPrefix]_vars

----------------------------------------------------------------------------
(* run_backtest called twice on one Engine: the second call loads the same  *)
(* file and runs on the attributes the first call left.                     *)

InitRerun ==
    /\ data \in PrefixSeries
    /\ frame = [lo |-> 0, hi |-> Len(data)]
    /\ pc = "run"
    /\ idx = 0
    /\ NewEngine
    /\ run_no = 1 /\ first_trades = <<>> /\ first_equity = <<>>
    /\ NoWalkForward

\* The first call has returned: its output is kept for comparison and
\* run_backtest is called again (nothing in run_backtest assigns
\* account_value, trades, equity_curve or current_position before the loop)
Rerun ==
    /\ pc = "done" /\ run_no = 1
    /\ first_trades' = trades
    /\ first_equity' = equity_curve
    /\ run_no' = 2
    /\ pc' = "run"
    /\ idx' = 0
    /\ UNCHANGED <<data, frame, error, engVars, wfVars>>

NextRerun == BarLoop \/ Rerun

SpecRerun == InitRerun /\ [][NextRerun]_vars

----------------------------------------------------------------------------
(* One call of _enter_trade, and through it of calculate_position_size, on  *)
(* a bar, for a range of account values, risk parameters and ATR values.    *)

SizeAccounts == {initial_capital, 100480, 99520, 50000, 1000}

\* risk_per_trade, atr_stop_multiplier of the Strategy
SizeRisks == {5, 10, 20, 25}
SizeMultipliers == {0, 15, 20, 25, 35}

\* atr_14 of the bar
SizeAtrs == {NaN, 4, 10, WideAtr}

SizeBar(atr) == [QuietBar(AtrAvgValidFrom) EXCEPT !.atr_14 = atr]

InitSize ==
    /\ \E atr \in SizeAtrs : data = <<SizeBar(atr)>>
    /\ frame = [lo |-> 0, hi |-> 1]
    /\ pc = "enter"
    /\ idx = 0
    /\ account_value \in SizeAccounts
    /\ current_position = NoPos
    /\ trades = <<>>
    /\ equity_curve = <<>>
    /\ \E risk \in SizeRisks, mult \in SizeMultipliers :
          strategy = [NewStrategy EXCEPT !.risk_per_trade = risk,
                                         !.atr_stop_multiplier = mult]
    /\ lastCall = NoCall
    /\ opened = 0
    /\ error = "none"
    /\ run_no = 0 /\ first_trades = <<>> /\ first_equity = <<>>
    /\ NoWalkForward

\* _enter_trade(data, idx) returns
EnterCall ==
    /\ pc = "enter"
    /\ ~SizeFails(strategy, ILoc(frame, idx))
    /\ EnterTrade(frame, idx)
    /\ pc' = "entered"
    /\ UNCHANGED <<data, frame, idx, error, account_value, trades, equity_curve,
                   strategy, lastCall, harnessVars, wfVars>>

\* _enter_trade(data, idx) raises in calculate_position_size
EnterCallFail ==
    /\ pc = "enter"
    /\ SizeFails(strategy, ILoc(frame, idx))
    /\ error' = SizeError(strategy, ILoc(frame, idx))
    /\ pc' = "error"
    /\ UNCHANGED <<data, frame, idx, engVars, harnessVars, wfVars>>

NextSize == EnterCall \/ EnterCallFail

SpecSize == InitSize /\ [][NextSize]_vars

----------------------------------------------------------------------------
(* Properties of an Engine run (Spec) *)

RECURSIVE SumPnl(_)
SumPnl(ts) == IF ts = <<>> THEN 0 ELSE ts[1].pnl + SumPnl(Tail(ts))

\* positions opened and not yet closed
OpenCount == opened - Len(trades)

\* C1: at most one position is open in every state, and every entry happens on
\* a bar at whose start no position is open: an entry never replaces or stacks
\* on an open position.
C1_SinglePosition ==
    /\ [](OpenCount \in {0, 1} /\ (OpenCount = 1 <=> IsOpen(current_position)))
    /\ [][opened' # opened => ~IsOpen(current_position)]_vars

\* an entry signal came on the previous bar while a position was open, and
\* the position opened earlier is still the open one
C1_Witness ==
    /\ pc = "run" /\ idx >= 1
    /\ IsOpen(current_position)
    /\ current_position.entry_time < idx - 1
    /\ lastCall.fn = "should_exit"
    /\ should_enter(frame, idx - 1)

\* C2: after any number of bars, and after the forced close, account_value is
\* initial_capital plus the pnl of all trades recorded so far.
C2_EquityConservation == account_value = initial_capital + SumPnl(trades)

C2_Witness ==
    /\ pc = "done" /\ Len(trades) >= 2
    /\ trades[Len(trades)].exit_reason = "end_of_data"
    /\ account_value # initial_capital

\* C7: when run_backtest has finished no position is open, every position
\* opened has its trade, and a trade closed as end_of_data is the last one,
\* closed at the final bar's close with
\* pnl = (close[N-1] - close[k]) * position_size * point_value.
C7_EndOfDataClosure ==
    pc = "done" =>
        /\ ~IsOpen(current_position)
        /\ Len(trades) = opened
        /\ \A n \in 1..Len(trades) :
              trades[n].exit_reason = "end_of_data" =>
                 /\ n = Len(trades)
                 /\ trades[n].exit_time = Len(data) - 1
                 /\ trades[n].exit_price = data[Len(data)].close
                 /\ trades[n].pnl =
                       (data[Len(data)].close - data[trades[n].entry_time + 1].close)
                           * trades[n].position_size * point_value

C7_Witness ==
    /\ pc = "done" /\ trades # <<>>
    /\ trades[Len(trades)].exit_reason = "end_of_data"
    /\ trades[Len(trades)].entry_time < Len(data) - 2
    /\ trades[Len(trades)].pnl # 0

\* C11: every trade recorded by the Engine, the end_of_data trades included,
\* has exit_time strictly greater than entry_time.
C11_ExitAfterEntry ==
    \A n \in 1..Len(trades) : trades[n].exit_time > trades[n].entry_time

\* C12: after k bars the equity curve holds exactly k points, the n-th being
\* the point of the n-th bar (timestamps strictly increasing in bar order),
\* whatever happened to the position on the bar; the bar index only moves
\* forward, one bar at a time.
C12_EquityCurveShape ==
    /\ [](/\ Len(equity_curve) = idx
          /\ \A n \in 1..Len(equity_curve) : equity_curve[n].timestamp = n - 1
          /\ \A n \in 2..Len(equity_curve) :
                equity_curve[n].timestamp > equity_curve[n - 1].timestamp)
    /\ [][idx' = idx \/ idx' = idx + 1]_vars

\* a finished run in which a position was opened, held and closed before
\* the last bar
C12_Witness ==
    /\ pc = "done" /\ Len(equity_curve) = Len(data)
    /\ trades # <<>>
    /\ trades[1].exit_time < Len(data) - 1
    /\ \E n \in 1..Len(equity_curve) : equity_curve[n].position = 1
    /\ equity_curve[Len(equity_curve)].equity # initial_capital

\* C13: a position keeps the stop and target prices stored at entry while it
\* is open; a trade closed as stop_loss exits at that stop price, one closed
\* as take_profit at that target price, and a trade closed for any other
\* reason exits at the close of the bar it is closed on.
C13_ExitPriceResolution ==
    [][/\ (IsOpen(current_position) /\ IsOpen(current_position'))
              => current_position' = current_position
       /\ Len(trades') = Len(trades) + 1 =>
             LET t == trades'[Len(trades')] IN
             /\ t.exit_reason = "stop_loss" => t.exit_price = current_position.stop_loss
             /\ t.exit_reason = "take_profit"
                   => t.exit_price = current_position.take_profit
             /\ t.exit_reason \notin {"stop_loss", "take_profit"}
                   => t.exit_price = data[t.exit_time + 1].close]_vars

\* a stop_loss or take_profit trade priced away from the close of its exit
\* bar, followed by a trade closed at the final bar's close
C13_Witness ==
    /\ pc = "done" /\ Len(trades) = 2
    /\ trades[1].exit_reason \in {"stop_loss", "take_profit"}
    /\ trades[1].exit_price # data[trades[1].exit_time + 1].close
    /\ trades[2].exit_reason = "end_of_data"
    /\ trades[2].exit_price = data[Len(data)].close

\* C14: a step that closes a position changes account_value by exactly
\* (exit_price - entry_price) * position_size * point_value of that position;
\* every other step (an entry, a bar with no decision, a held position, the
\* end of the run) leaves account_value unchanged.
C14_AccountChangesAtExits ==
    [][IF Len(trades') = Len(trades) + 1
       THEN account_value' - account_value =
                (trades'[Len(trades')].exit_price - current_position.entry_price)
                    * current_position.position_size * point_value
       ELSE account_value' = account_value]_vars

\* a position opened after a trade that changed the account: the entry left
\* the changed account value as it was
C14_Witness ==
    /\ pc = "run" /\ IsOpen(current_position)
    /\ trades # <<>>
    /\ account_value # initial_capital
    /\ account_value = current_position.entry_equity
    /\ equity_curve[Len(equity_curve)].equity = account_value

\* C19: run_backtest on an empty bar sequence does not complete: it fails
\* with an InsufficientData error.
C19_EmptyInput ==
    Len(data) = 0 => (pc = "load" \/ (pc = "error" /\ error = "InsufficientData"))

\* C21: a position is opened only when int(risk_amount / (stop_distance *
\* point_value)) is at least 1: an entry whose size truncates below 1 fails
\* with InvalidPosition and opens no position.
C21_NonPositiveSizeRejected ==
    IsOpen(current_position) =>
        position_size(strategy, data[current_position.entry_time + 1],
                      current_position.entry_equity) >= 1

\* the trades closed on a bar before bar i
ExitedBefore(i) == SelectSeq(trades, LAMBDA t : t.exit_time < i)

\* a position entered on a bar before bar i has not been closed on a bar
\* before bar i
OpenBefore(i) ==
    \/ \E n \in 1..Len(trades) :
          trades[n].entry_time < i /\ trades[n].exit_time >= i
    \/ IsOpen(current_position) /\ current_position.entry_time < i

\* C31: the equity point of bar i holds initial_capital plus the pnl of the
\* trades closed on bars before i, and its flag is 1 exactly when a position
\* entered before bar i has not been closed before bar i; a trade the
\* strategy closes on bar i leaves the point of bar i at the account value
\* before the exit with flag 1, and the point of bar i+1 shows the account
\* value after it with flag 0.
C31_PreDecisionEquity ==
    /\ \A n \in 1..Len(equity_curve) :
          /\ equity_curve[n].equity = initial_capital + SumPnl(ExitedBefore(n - 1))
          /\ equity_curve[n].position = 1 <=> OpenBefore(n - 1)
          /\ equity_curve[n].position \in {0, 1}
    /\ \A k \in 1..Len(trades) :
          LET t == trades[k] IN
          (t.exit_reason # "end_of_data" /\ Len(equity_curve) >= t.exit_time + 2) =>
              /\ equity_curve[t.exit_time + 1].equity = t.equity_after - t.pnl
              /\ equity_curve[t.exit_time + 1].position = 1
              /\ equity_curve[t.exit_time + 2].equity = t.equity_after
              /\ equity_curve[t.exit_time + 2].position = 0

\* a finished run in which the strategy closed a trade with a non-zero pnl
\* before the last bar and a position was opened on the bar after it
C31_Witness ==
    /\ pc = "done" /\ Len(trades) >= 2
    /\ trades[1].exit_reason # "end_of_data"
    /\ trades[1].pnl # 0
    /\ trades[1].exit_time + 2 <= Len(equity_curve)
    /\ trades[2].entry_time = trades[1].exit_time + 1
    /\ equity_curve[trades[1].exit_time + 2].equity # initial_capital

\* a step of a bar loop evaluates the exit when a position is open at the
\* start of the bar and the entry when none is, on the bar of the loop
\* variable, and does not both close and open a position
OneEvaluation ==
    idx' = idx + 1 =>
        /\ lastCall'.idx = idx
        /\ lastCall'.fn = IF IsOpen(current_position) THEN "should_exit"
                          ELSE "should_enter"
        /\ ~(trades' # trades /\ opened' # opened)
        /\ trades' # trades => ~IsOpen(current_position')
        /\ opened' # opened => ~IsOpen(current_position)

\* every trade the strategy closed was closed on a bar after its entry bar,
\* and every position was entered on a bar after the exit bar of the trade
\* before it
OneBarApart ==
    /\ \A n \in 1..Len(trades) :
          /\ trades[n].exit_reason # "end_of_data"
                => trades[n].exit_time >= trades[n].entry_time + 1
          /\ n > 1 => trades[n].entry_time >= trades[n - 1].exit_time + 1
    /\ (IsOpen(current_position) /\ trades # <<>>)
          => current_position.entry_time >= trades[Len(trades)].exit_time + 1

\* C32: on each bar the engine evaluates either the exit (a position is open
\* at the start of the bar) or the entry (none is open), never both; after an
\* exit on bar i the next entry is on bar i+1 at the earliest, and after an
\* entry on bar i the strategy closes the position on bar i+1 at the earliest.
C32_OneActionPerBar == []OneBarApart /\ [][OneEvaluation]_vars

\* s is an initial part of t
IsPrefix(s, t) == Len(s) <= Len(t) /\ SubSeq(t, 1, Len(s)) = s

\* C29: every step of an Engine run leaves the trades and the equity points
\* recorded so far as they are: each list after the step starts with the
\* list before it, growing by at most one element at its end; and no step
\* changes the bar series.
C29_AppendOnly ==
    [][/\ IsPrefix(trades, trades') /\ Len(trades') <= Len(trades) + 1
       /\ IsPrefix(equity_curve, equity_curve')
       /\ Len(equity_curve') <= Len(equity_curve) + 1
       /\ data' = data]_vars

\* a finished run that recorded a point for every bar and closed two trades,
\* the second entered after the first was closed
C29_Witness ==
    /\ pc = "done" /\ Len(equity_curve) = Len(data)
    /\ Len(trades) = 2
    /\ trades[1].equity_after # initial_capital
    /\ trades[2].entry_time > trades[1].exit_time

\* trailing_stop_level of a bar, in tenths
TrailLevel(cur) == cur.close * MultScale - cur.atr_14 * trailing_stop_distance

\* should_exit on bar cur, leaving highest_profit at hp, tests the low of
\* the bar against the trailing level: neither the stop nor the target is
\* hit, the trailing stop is active and its level is above the stop
TrailTested(hp, cur, pos) ==
    /\ cur.low > pos.stop_loss /\ cur.high < pos.take_profit
    /\ use_trailing_stop
    /\ hp * MultScale > risk_amount(pos) * trailing_stop_activation
    /\ ~IsNa(cur.atr_14)
    /\ TrailLevel(cur) > pos.stop_loss * MultScale

\* a position that was held on the previous bar is about to be examined on
\* the next bar
HeldOverBar ==
    /\ pc = "run" /\ IsOpen(current_position)
    /\ idx >= 1 /\ idx < FrameLen(frame)
    /\ lastCall.fn = "should_exit" /\ lastCall.idx = idx - 1

\* the trailing level tested on the next bar is not below the level tested
\* on the previous bar
LevelHolds ==
    HeldOverBar =>
        LET prev == ILoc(frame, idx - 1)
            cur  == ILoc(frame, idx)
            hp   == ExitMemory(strategy, cur, current_position).highest_profit
        IN  (/\ TrailTested(strategy.highest_profit, prev, current_position)
             /\ TrailTested(hp, cur, current_position))
                => TrailLevel(cur) >= TrailLevel(prev)

\* highest_profit does not decrease while the position stays open
HighWaterHolds ==
    (IsOpen(current_position) /\ current_position' = current_position)
        => strategy'.highest_profit >= strategy.highest_profit

\* C30: while a position is open and the trailing stop is active, the level
\* its exit test uses does not decrease from one bar to the next, and
\* highest_profit does not decrease over the life of the position.
C30_TrailingStopNeverRetreats == []LevelHolds /\ [][HighWaterHolds]_vars

\* the exit conditions of a bar, each taken alone, for a position and the
\* highest_profit the call leaves
StopCond(cur, pos) == cur.low <= pos.stop_loss
TargetCond(cur, pos) == cur.high >= pos.take_profit
TrailCond(hp, cur, pos) ==
    /\ use_trailing_stop
    /\ hp * MultScale > risk_amount(pos) * trailing_stop_activation
    /\ ~IsNa(cur.atr_14)
    /\ TrailLevel(cur) > pos.stop_loss * MultScale
    /\ cur.low * MultScale <= TrailLevel(cur)
CrossCond(cur, prev) == prev.ema_9 >= prev.ema_21 /\ cur.ema_9 < cur.ema_21

\* the reason with the highest priority among the conditions that hold
FirstReason(hp, cur, prev, pos) ==
    IF StopCond(cur, pos) THEN "stop_loss"
    ELSE IF TargetCond(cur, pos) THEN "take_profit"
    ELSE IF TrailCond(hp, cur, pos) THEN "trailing_stop"
    ELSE IF CrossCond(cur, prev) THEN "opposite_crossover"
    ELSE "none"

\* C37: a bar of the loop that examines an open position closes it exactly
\* when one of the four exit conditions holds, with the single reason that
\* comes first in the order stop_loss, take_profit, trailing_stop,
\* opposite_crossover; a bar that reaches both the stop and the target is
\* closed as stop_loss at the stop price.
C37_ExitPrecedence ==
    [][(idx' = idx + 1 /\ IsOpen(current_position)) =>
          LET cur    == data[idx + 1]
              prev   == data[IF idx = 0 THEN Len(data) ELSE idx]
              reason == FirstReason(strategy'.highest_profit, cur, prev,
                                    current_position)
          IN  /\ reason = "none" <=> trades' = trades
              /\ reason # "none" =>
                    /\ trades' = Append(trades, trades'[Len(trades')])
                    /\ trades'[Len(trades')].exit_reason = reason
              /\ (StopCond(cur, current_position)
                    /\ TargetCond(cur, current_position)) =>
                    /\ trades'[Len(trades')].exit_reason = "stop_loss"
                    /\ trades'[Len(trades')].exit_price
                          = current_position.stop_loss]_vars

\* a finished run with a trade closed as stop_loss at the stop price on a
\* bar whose high reached the target, and a trade closed as take_profit
C37_Witness ==
    /\ pc = "done"
    /\ \E n \in 1..Len(trades) :
          /\ trades[n].exit_reason = "stop_loss"
          /\ data[trades[n].exit_time + 1] = SpikeBar
          /\ trades[n].exit_price < SpikeBar.close
          /\ 2 * (SpikeBar.high - trades[n].entry_price)
                >= 3 * (trades[n].entry_price - trades[n].exit_price)

\* every entry condition of should_enter that does not involve atr_14 or
\* atr_avg holds on bar i
SignalApartFromAtr(f, i) ==
    /\ i >= WarmUpBars
    /\ RecentCrossover(f, i)
    /\ TrendOk(ILoc(f, i))
    /\ MomentumOk(ILoc(f, i), ILoc(f, i - 1))
    /\ SlopeOk(ILoc(f, i), ILoc(f, i - 1))
    /\ HadPullback(f, i)
    /\ ILoc(f, i).close > ILoc(f, i).ema_9 /\ ILoc(f, i).close > ILoc(f, i).ema_21

----------------------------------------------------------------------------
(* Properties of a repeated run (SpecRerun) *)

\* what a sequence holds past its first n elements
After(seq, n) == SubSeq(seq, n + 1, Len(seq))

\* C23: the second of two runs of the Engine on the same bars gives the
\* trades and the equity points the first gave, whether its output is taken
\* to be the lists the Engine holds after it or what it added to them.
C23_Idempotence ==
    (pc = "done" /\ run_no = 2) =>
        /\ (trades = first_trades \/ After(trades, Len(first_trades)) = first_trades)
        /\ (equity_curve = first_equity
               \/ After(equity_curve, Len(first_equity)) = first_equity)

----------------------------------------------------------------------------
(* Properties of position sizing (SpecSize) *)

\* floor(account_value * risk_per_trade / (atr_14 * atr_stop_multiplier *
\* point_value)) for the scaled parameters, all positive
SizeFloor(account, risk, atr, mult) ==
    (account * risk * MultScale) \div (RiskScale * atr * mult * point_value)

\* account_value=100000, risk_per_trade=0.02, atr_14=10, atr_stop_multiplier=2
SizeExample ==
    /\ account_value = 100000 /\ strategy.risk_per_trade = 20
    /\ data[1].atr_14 = 10 /\ strategy.atr_stop_multiplier = 20

\* C22: the size of an entered position is a positive integer, equal to
\* floor(account_value * risk_per_trade / (atr_14 * atr_stop_multiplier *
\* point_value)) whenever that value is at least 1; it is 10 for
\* account_value=100000, risk_per_trade=0.02, atr_14=10,
\* atr_stop_multiplier=2, point_value=10.
C22_PositionSizing ==
    pc = "entered" =>
        LET floor == SizeFloor(account_value, strategy.risk_per_trade,
                               data[1].atr_14, strategy.atr_stop_multiplier)
        IN  /\ current_position.position_size \in Nat \ {0}
            /\ floor >= 1 => current_position.position_size = floor
            /\ SizeExample => current_position.position_size = 10

C22_Witness ==
    /\ pc = "entered" /\ SizeExample
    /\ current_position.position_size = 10
    /\ current_position.stop_loss = current_position.entry_price - 20

----------------------------------------------------------------------------
(* Properties of the two runs (SpecPrefix) *)

StrategyExit(t) == t.exit_reason # "end_of_data"

\* C4: the run over the first M rows and the run over the whole series agree
\* on bars 0..M-1: equal equity points, equal trades closed by a strategy
\* exit before M; the run over the prefix adds at most one end_of_data trade.
C4_TruncationInvariance ==
    (pc = "done" /\ run_no = 2) =>
        LET M == Len(first_equity)
            Before(t) == StrategyExit(t) /\ t.exit_time < M
        IN  /\ M <= Len(equity_curve)
            /\ first_equity = SubSeq(equity_curve, 1, M)
            /\ SelectSeq(first_trades, StrategyExit) = SelectSeq(trades, Before)
            /\ Len(first_trades) - Len(SelectSeq(first_trades, StrategyExit)) <= 1

\* the prefix run ended with a position open and closed it at its end of
\* data, where the full run held it and closed it later by a strategy exit
C4_Witness ==
    /\ pc = "done" /\ run_no = 2
    /\ Len(first_equity) < Len(equity_curve)
    /\ first_trades # <<>>
    /\ first_trades[Len(first_trades)].exit_reason = "end_of_data"
    /\ trades # <<>>
    /\ trades[1].exit_reason # "end_of_data"
    /\ trades[1].exit_time >= Len(first_equity)

----------------------------------------------------------------------------
(* Walk-forward optimizer (forward_test.py) *)

\* data.iloc[a:b]: the rows a slice selects out of n (negative bounds count
\* from the end, bounds are clipped, an inverted slice is empty)
SlicePos(k, n) == IF k < 0 THEN Max(k + n, 0) ELSE Min(k, n)

Slice(a, b) ==
    [lo |-> SlicePos(a, Len(data)),
     hi |-> Max(SlicePos(a, Len(data)), SlicePos(b, Len(data)))]

\* Variant: the out-of-sample span starts one row after is_end
WindowBoundsGap(ws) ==
    [is_start  |-> ws,
     is_end    |-> ws + in_sample_bars,
     oos_start |-> ws + in_sample_bars + 1,
     oos_end   |-> ws + in_sample_bars + 1 + out_sample_bars]

\* Define window boundaries
WindowBounds(ws) ==
    [is_start  |-> ws,
     is_end    |-> ws + in_sample_bars,
     oos_start |-> ws + in_sample_bars,
     oos_end   |-> ws + in_sample_bars + out_sample_bars]

is_data(sp) == Slice(sp.is_start, sp.is_end)
oos_data(sp) == Slice(sp.oos_start, sp.oos_end)

\* Variant: the while condition leaves the out-of-sample length out
FitsInSample(ws) == ws + in_sample_bars <= Len(data)

\* Variant: the while condition with < in place of <=
FitsStrictly(ws) == ws + in_sample_bars + out_sample_bars < Len(data)

\* the while condition of the rolling scan
Fits(ws) == ws + in_sample_bars + out_sample_bars <= Len(data)

\* _generate_param_combinations: itertools.product over the value lists, the
\* last key varying fastest; a dict is a function from names to values
RECURSIVE Flatten(_)
Flatten(ss) == IF ss = <<>> THEN <<>> ELSE ss[1] \o Flatten(Tail(ss))

\* Variant: the keys are varied one at a time, the others held at their
\* first value (as many combinations as the list lengths add up to)
param_combinations_one_at_a_time(grid) ==
    Flatten([k \in 1..Len(grid) |->
               [v \in 1..Len(grid[k][2]) |->
                  [name \in {grid[j][1] : j \in 1..Len(grid)} |->
                     LET j == CHOOSE j \in 1..Len(grid) : grid[j][1] = name
                     IN  IF j = k THEN grid[j][2][v] ELSE grid[j][2][1]]]])

RECURSIVE param_combinations(_)
param_combinations(grid) ==
    IF grid = <<>> THEN << <<>> >>
    ELSE LET key  == grid[1][1]
             vals == grid[1][2]
             rest == param_combinations(Tail(grid))
         IN  Flatten([v \in 1..Len(vals) |->
                        [r \in 1..Len(rest) |-> (key :> vals[v]) @@ rest[r]]])

\* for param, value in params.items(): if hasattr(...): setattr(...)
SetParams(st, params) ==
    [a \in DOMAIN st |-> IF a \in DOMAIN params THEN params[a] ELSE st[a]]

\* a / b > c / d for b > 0 and d > 0, by the Euclidean algorithm (no product
\* of a numerator and a denominator is formed)
RECURSIVE RatGT(_, _, _, _)
RatGT(a, b, c, d) ==
    IF a \div b # c \div d THEN a \div b > c \div d
    ELSE IF a % b = 0 THEN FALSE
    ELSE IF c % d = 0 THEN TRUE
    ELSE RatGT(d, c % d, b, a % b)

IsWinner(t) == t.pnl > 0
IsLoser(t) == t.pnl <= 0

\* Variant: the division is attempted whenever there is a losing trade
profit_factor_unguarded(ts) ==
    LET winners == SelectSeq(ts, IsWinner)
        losers  == SelectSeq(ts, IsLoser)
    IN  IF ts # <<>> /\ Len(losers) > 0
        THEN [num |-> SumPnl(winners), den |-> -SumPnl(losers)]
        ELSE [num |-> 0, den |-> 1]

\* profit_factor as the exact ratio num / den
profit_factor(ts) ==
    LET winners == SelectSeq(ts, IsWinner)
        losers  == SelectSeq(ts, IsLoser)
    IN  IF ts # <<>> /\ SumPnl(losers) # 0 /\ Len(losers) > 0
        THEN [num |-> SumPnl(winners), den |-> -SumPnl(losers)]
        ELSE [num |-> 0, den |-> 1]

\* win_rate in percent as the exact ratio num / den
win_rate(ts) ==
    IF ts # <<>>
    THEN [num |-> Len(SelectSeq(ts, IsWinner)) * 100, den |-> Len(ts)]
    ELSE [num |-> 0, den |-> 1]

\* The dict _run_single_backtest returns
Results(ts, account) ==
    [total_trades  |-> Len(ts),
     win_rate      |-> win_rate(ts),
     total_pnl     |-> SumPnl(ts),
     profit_factor |-> profit_factor(ts),
     final_capital |-> account,
     trades        |-> ts]

\* Variant: the profit factor enters the score without its factor 1000
fitness_score_unscaled(res) ==
    LET pf == res.profit_factor
        wr == res.win_rate
    IN  [num |-> (4 * res.total_pnl + res.total_trades) * pf.den * wr.den
                 + 3 * pf.num * wr.den
                 + 20 * wr.num * pf.den,
         den |-> 10 * pf.den * wr.den]

\* _calculate_fitness_score:
\* total_pnl*0.4 + profit_factor*1000*0.3 + win_rate*10*0.2 + total_trades*0.1
\* over the common denominator 10 * profit_factor.den * win_rate.den
fitness_score(res) ==
    LET pf == res.profit_factor
        wr == res.win_rate
    IN  [num |-> (4 * res.total_pnl + res.total_trades) * pf.den * wr.den
                 + 3000 * pf.num * wr.den
                 + 20 * wr.num * pf.den,
         den |-> 10 * pf.den * wr.den]

NaNScore == [num |-> 0, den |-> 0]    \* float('nan')

\* score > best_score (every comparison with nan is False)
ScoreGT(x, y) ==
    IF x = NaNScore \/ y = NaNScore THEN FALSE
    ELSE IF x = NegInf THEN FALSE
    ELSE IF y = NegInf THEN TRUE
    ELSE RatGT(x.num, x.den, y.num, y.den)

\* what the inherited _exit_trade hands back to trades.append(...)
ReturnedTrade(f, i, pos, reason, account) == TradeRecord(f, i, pos, reason, account)

\* The while condition holds and both slices have rows: the window starts
\* with the grid search
WindowStart ==
    /\ pc = "wf_head" /\ window_num <= MaxWindows
    /\ Fits(window_start)
    /\ FrameLen(is_data(WindowBounds(window_start))) > 0
    /\ FrameLen(oos_data(WindowBounds(window_start))) > 0
    /\ span' = WindowBounds(window_start)
    /\ trial' = 1
    /\ best_score' = NegInf
    /\ best_params' = <<>>
    /\ tested' = <<>>
    /\ scores' = <<>>
    /\ pc' = "wf_opt"
    /\ UNCHANGED <<data, frame, idx, error, engVars, harnessVars, cfgVars,
                   window_start, window_num, all_windows, oos_trades, phase,
                   run_trades>>

\* The while condition holds and a slice is empty: is_data.index[0] or
\* oos_data.index[0] raises IndexError
WindowFail ==
    /\ pc = "wf_head" /\ window_num <= MaxWindows
    /\ Fits(window_start)
    /\ \/ FrameLen(is_data(WindowBounds(window_start))) = 0
       \/ FrameLen(oos_data(WindowBounds(window_start))) = 0
    /\ span' = WindowBounds(window_start)
    /\ pc' = "error"
    /\ error' = "IndexError"
    /\ UNCHANGED <<data, frame, idx, engVars, harnessVars, cfgVars,
                   window_start, window_num, all_windows, oos_trades, optVars,
                   run_trades>>

\* _optimize_parameters: the next combination is set on the shared strategy
\* and its backtest over the in-sample slice starts
TrialStart ==
    /\ pc = "wf_opt"
    /\ trial <= Len(param_combinations(param_grid))
    /\ strategy' = SetParams(strategy, param_combinations(param_grid)[trial])
    /\ frame' = is_data(span)
    /\ run_trades' = <<>>
    /\ idx' = 0
    /\ phase' = "is"
    /\ tested' = Append(tested, param_combinations(param_grid)[trial])
    /\ pc' = "wf_bar"
    /\ UNCHANGED <<data, error, account_value, current_position, trades,
                   equity_curve, lastCall, opened, harnessVars, cfgVars,
                   scanVars, trial, best_score, best_params, scores>>

\* Variant: the out-of-sample run starts without setting best_params on the
\* shared strategy
OosStartKeepsLast ==
    /\ pc = "wf_opt"
    /\ trial > Len(param_combinations(param_grid))
    /\ best_params # <<>>
    /\ strategy' = strategy
    /\ frame' = oos_data(span)
    /\ run_trades' = <<>>
    /\ idx' = 0
    /\ phase' = "oos"
    /\ pc' = "wf_bar"
    /\ UNCHANGED <<data, error, account_value, current_position, trades,
                   equity_curve, lastCall, opened, harnessVars, cfgVars,
                   scanVars, trial, best_score, best_params, tested, scores>>

\* Step 2: the backtest over the out-of-sample slice with best_params starts
OosStart ==
    /\ pc = "wf_opt"
    /\ trial > Len(param_combinations(param_grid))
    /\ best_params # <<>>
    /\ strategy' = SetParams(strategy, best_params[1])
    /\ frame' = oos_data(span)
    /\ run_trades' = <<>>
    /\ idx' = 0
    /\ phase' = "oos"
    /\ pc' = "wf_bar"
    /\ UNCHANGED <<data, error, account_value, current_position, trades,
                   equity_curve, lastCall, opened, harnessVars, cfgVars,
                   scanVars, trial, best_score, best_params, tested, scores>>

\* One iteration of the bar loop of _run_single_backtest: position open,
\* should_exit returns True
SubExit ==
    /\ pc = "wf_bar" /\ idx < FrameLen(frame)
    /\ IsOpen(current_position)
    /\ should_exit(strategy, frame, idx, current_position) # "none"
    /\ strategy' = ExitMemory(strategy, ILoc(frame, idx), current_position)
    /\ lastCall' = [fn |-> "should_exit", idx |-> idx, rows |-> ExitReads(frame, idx)]
    /\ ExitTrade(frame, idx, should_exit(strategy, frame, idx, current_position))
    /\ run_trades' = Append(run_trades,
                            ReturnedTrade(frame, idx, current_position,
                                should_exit(strategy, frame, idx, current_position),
                                account_value))
    /\ idx' = idx + 1
    /\ UNCHANGED <<data, frame, pc, error, equity_curve, opened, harnessVars,
                   cfgVars, scanVars, optVars>>

\* ... position open, should_exit returns False
SubHold ==
    /\ pc = "wf_bar" /\ idx < FrameLen(frame)
    /\ IsOpen(current_position)
    /\ should_exit(strategy, frame, idx, current_position) = "none"
    /\ strategy' = ExitMemory(strategy, ILoc(frame, idx), current_position)
    /\ lastCall' = [fn |-> "should_exit", idx |-> idx, rows |-> ExitReads(frame, idx)]
    /\ idx' = idx + 1
    /\ UNCHANGED <<data, frame, pc, error, account_value, current_position, trades,
                   equity_curve, opened, harnessVars, wfVars>>

\* ... no position open, should_enter returns True
SubEnter ==
    /\ pc = "wf_bar" /\ idx < FrameLen(frame)
    /\ EntryBranch(current_position)
    /\ should_enter(frame, idx)
    /\ ~SizeFails(strategy, ILoc(frame, idx))
    /\ strategy' = EnterMemory(strategy, frame, idx)
    /\ lastCall' = [fn |-> "should_enter", idx |-> idx, rows |-> EnterReads(frame, idx)]
    /\ EnterTrade(frame, idx)
    /\ idx' = idx + 1
    /\ UNCHANGED <<data, frame, pc, error, account_value, trades, equity_curve,
                   harnessVars, wfVars>>

\* ... no position open, should_enter returns True and _enter_trade raises
\* in calculate_position_size: nothing catches the exception, it leaves
\* _run_single_backtest, _optimize_parameters and run_walk_forward
SubEnterFail ==
    /\ pc = "wf_bar" /\ idx < FrameLen(frame)
    /\ EntryBranch(current_position)
    /\ should_enter(frame, idx)
    /\ SizeFails(strategy, ILoc(frame, idx))
    /\ strategy' = EnterMemory(strategy, frame, idx)
    /\ lastCall' = [fn |-> "should_enter", idx |-> idx, rows |-> EnterReads(frame, idx)]
    /\ error' = SizeError(strategy, ILoc(frame, idx))
    /\ pc' = "error"
    /\ UNCHANGED <<data, frame, idx, account_value, current_position, trades,
                   equity_curve, opened, harnessVars, wfVars>>

\* ... no position open, should_enter returns False
SubIdle ==
    /\ pc = "wf_bar" /\ idx < FrameLen(frame)
    /\ EntryBranch(current_position)
    /\ ~should_enter(frame, idx)
    /\ strategy' = EnterMemory(strategy, frame, idx)
    /\ lastCall' = [fn |-> "should_enter", idx |-> idx, rows |-> EnterReads(frame, idx)]
    /\ idx' = idx + 1
    /\ UNCHANGED <<data, frame, pc, error, account_value, current_position, trades,
                   equity_curve, opened, harnessVars, wfVars>>

\* Variant: a score equal to the best so far replaces it
TrialEndKeepsLast ==
    /\ pc = "wf_bar" /\ idx = FrameLen(frame)
    /\ phase = "is"
    /\ LET score == fitness_score(Results(run_trades, account_value)) IN
          IF ~ScoreGT(best_score, score)
          THEN /\ best_score' = score
               /\ best_params' = <<param_combinations(param_grid)[trial]>>
          ELSE UNCHANGED <<best_score, best_params>>
    /\ scores' = Append(scores, fitness_score(Results(run_trades, account_value)))
    /\ trial' = trial + 1
    /\ pc' = "wf_opt"
    /\ UNCHANGED <<data, frame, idx, error, engVars, harnessVars, cfgVars,
                   scanVars, phase, run_trades, tested>>

\* The bar loop of a grid-search trial is over: metrics, score, best so far
TrialEnd ==
    /\ pc = "wf_bar" /\ idx = FrameLen(frame)
    /\ phase = "is"
    /\ LET score == fitness_score(Results(run_trades, account_value)) IN
          IF ScoreGT(score, best_score)
          THEN /\ best_score' = score
               /\ best_params' = <<param_combinations(param_grid)[trial]>>
          ELSE UNCHANGED <<best_score, best_params>>
    /\ scores' = Append(scores, fitness_score(Results(run_trades, account_value)))
    /\ trial' = trial + 1
    /\ pc' = "wf_opt"
    /\ UNCHANGED <<data, frame, idx, error, engVars, harnessVars, cfgVars,
                   scanVars, phase, run_trades, tested>>

\* The row label pandas gives for index[k] of a slice
IndexLabel(f, k) == Label(f, k)

\* The dict appended to all_windows
WindowRecord(num, sp, params, score, res) ==
    [window      |-> num,
     is_start    |-> IndexLabel(is_data(sp), 0),
     is_end      |-> IndexLabel(is_data(sp), -1),
     oos_start   |-> IndexLabel(oos_data(sp), 0),
     oos_end     |-> IndexLabel(oos_data(sp), -1),
     best_params |-> params,
     is_score    |-> score,
     oos_results |-> res]

\* Variant: the combined log is extended by every trade the engine holds
OosEndLogsAll ==
    /\ pc = "wf_bar" /\ idx = FrameLen(frame)
    /\ phase = "oos"
    /\ all_windows' = Append(all_windows,
                             WindowRecord(window_num, span, best_params[1], best_score,
                                          Results(run_trades, account_value)))
    /\ oos_trades' = oos_trades \o trades
    /\ window_start' = window_start + step_size
    /\ window_num' = window_num + 1
    /\ pc' = "wf_head"
    /\ UNCHANGED <<data, frame, idx, error, engVars, harnessVars, cfgVars, span,
                   optVars, run_trades>>

\* The out-of-sample run is over: the window is stored and the scan rolls on
OosEnd ==
    /\ pc = "wf_bar" /\ idx = FrameLen(frame)
    /\ phase = "oos"
    /\ all_windows' = Append(all_windows,
                             WindowRecord(window_num, span, best_params[1], best_score,
                                          Results(run_trades, account_value)))
    /\ oos_trades' = oos_trades \o run_trades
    /\ window_start' = window_start + step_size
    /\ window_num' = window_num + 1
    /\ pc' = "wf_head"
    /\ UNCHANGED <<data, frame, idx, error, engVars, harnessVars, cfgVars, span,
                   optVars, run_trades>>

\* sum(w['oos_results'][field] for w in self.all_windows)
RECURSIVE SumResults(_, _)
SumResults(ws, field) ==
    IF ws = <<>> THEN 0 ELSE ws[1].oos_results[field] + SumResults(Tail(ws), field)

\* the sum of the win rates of the windows, as a ratio
RECURSIVE SumWinRate(_)
SumWinRate(ws) ==
    IF ws = <<>> THEN [num |-> 0, den |-> 1]
    ELSE LET r    == ws[1].oos_results.win_rate
             rest == SumWinRate(Tail(ws))
         IN  [num |-> r.num * rest.den + rest.num * r.den, den |-> r.den * rest.den]

\* What _print_summary computes.  np.mean of the empty list is 0 / 0: numpy
\* warns and gives NaN, it does not raise.
Summary(ws) ==
    [total_oos_pnl    |-> SumResults(ws, "total_pnl"),
     avg_oos_win_rate |-> [num |-> SumWinRate(ws).num,
                           den |-> SumWinRate(ws).den * Len(ws)],
     total_oos_trades |-> SumResults(ws, "total_trades"),
     return_pct       |-> [num |-> SumResults(ws, "total_pnl") * 100,
                           den |-> initial_capital]]

\* The while condition fails: summary, save, return
ScanEnd ==
    /\ pc = "wf_head"
    /\ ~Fits(window_start)
    /\ pc' = "done"
    /\ UNCHANGED <<data, frame, idx, error, engVars, harnessVars, wfVars>>

\* The series of a walk-forward: quiet rows, with free bars on the last two
\* rows of the first in-sample slice and on the first two rows past the
\* warm-up of the first out-of-sample slice
WFLen == InSampleLen + OutSampleLen + ExtraBars

WFFreeRows == {InSampleLen - 2, InSampleLen - 1,
               InSampleLen + WarmUpBars, InSampleLen + WarmUpBars + 1}

WFBars == {SignalBar, DipBar, RallyBar}

WFSeries ==
    {[r \in 1..WFLen |-> IF r - 1 \in WFFreeRows THEN free[r - 1] ELSE QuietBar(r - 1)] :
        free \in [WFFreeRows -> WFBars]}

\* in_sample_bars, out_sample_bars, step_size: the attributes set before
\* run_walk_forward is called
WFConfigs ==
    {<<InSampleLen, OutSampleLen, 1>>, <<InSampleLen, OutSampleLen, 2>>,
     <<InSampleLen, OutSampleLen, 0>>, <<InSampleLen, OutSampleLen, -1>>,
     <<0, OutSampleLen, 1>>, <<InSampleLen, 0, 1>>,
     <<InSampleLen, OutSampleLen + ExtraBars + 1, 1>>}

\* param_grid: the dict handed to run_walk_forward, keys in insertion order
StopGrid == << <<"atr_stop_multiplier", <<15, 35>> >> >>

CubeGrid == << <<"risk_per_trade", <<5, 10>> >>,
               <<"atr_stop_multiplier", <<15, 35>> >>,
               <<"reward_risk_ratio", <<15, 20>> >> >>

\* a grid whose first combination makes the position sizing fail
ZeroStopGrid == << <<"atr_stop_multiplier", <<0, 25>> >> >>

\* a grid of close stops: a position a trial leaves open is stopped out or
\* reaches its target on the free bars of the out-of-sample slice
TightGrid == << <<"atr_stop_multiplier", <<15, 20>> >> >>

WFGrids == {StopGrid, CubeGrid, ZeroStopGrid, TightGrid}

\* The walk-forwards followed: every configuration with the one-key grid, the
\* configuration that rolls by one bar with every grid
WFRuns ==
    {run \in WFConfigs \X WFGrids :
        run[2] = StopGrid \/ run[1] = <<InSampleLen, OutSampleLen, 1>>}

\* ForwardTestEngine(strategy=Strategy(), initial_capital=100000) at the top
\* of the rolling scan of run_walk_forward
InitWF ==
    /\ data \in WFSeries
    /\ \E run \in WFRuns :
          /\ in_sample_bars = run[1][1] /\ out_sample_bars = run[1][2]
          /\ step_size = run[1][3]
          /\ param_grid = run[2]
    /\ frame = [lo |-> 0, hi |-> 0]
    /\ pc = "wf_head"
    /\ idx = 0
    /\ NewEngine
    /\ run_no = 0 /\ first_trades = <<>> /\ first_equity = <<>>
    /\ window_start = 0 /\ window_num = 1
    /\ span = NoSpan
    /\ all_windows = <<>> /\ oos_trades = <<>>
    /\ trial = 0 /\ best_score = NegInf /\ best_params = <<>>
    /\ phase = "none"
    /\ run_trades = <<>>
    /\ tested = <<>> /\ scores = <<>>

NextWF ==
    \/ WindowStart \/ WindowFail \/ TrialStart \/ OosStart
    \/ SubExit \/ SubHold \/ SubEnter \/ SubEnterFail \/ SubIdle
    \/ TrialEnd \/ OosEnd \/ ScanEnd

SpecWF == InitWF /\ [][NextWF]_vars

\* The walk-forward runs on: a statement that can be executed is executed
SpecWFLive == SpecWF /\ WF_vars(NextWF)

----------------------------------------------------------------------------
(* The metrics and the score of a sub-run, for the trade lists a bar loop   *)
(* over a longer slice leaves: the sub-run is taken up when its bar loop    *)
(* has ended.  The metrics read the pnl of the trades and nothing else.     *)

\* pnl of a trade of 4 contracts: a stop 12 points away, a trade closed at
\* its entry price, targets 6 and 18 points away
MetricPnls == {-480, 0, 240, 720}

RECURSIVE SumTo(_, _)
SumTo(pnls, k) == IF k = 0 THEN 0 ELSE pnls[k] + SumTo(pnls, k - 1)

\* The list trades of _run_single_backtest after a bar loop that closed one
\* trade per pnl of the list, on an engine that started from initial_capital
TradeList(pnls, f) ==
    [k \in 1..Len(pnls) |->
        [entry_time    |-> f.lo + WarmUpBars + 2 * k,
         exit_time     |-> f.lo + WarmUpBars + 2 * k + 1,
         entry_price   |-> 100,
         exit_price    |-> 100 + pnls[k] \div (4 * point_value),
         position_size |-> 4,
         pnl           |-> pnls[k],
         pnl_pct       |-> [num |-> pnls[k] * 100,
                            den |-> initial_capital + SumTo(pnls, k - 1)],
         exit_reason   |-> IF pnls[k] > 0 THEN "take_profit"
                           ELSE IF pnls[k] < 0 THEN "stop_loss"
                           ELSE "opposite_crossover",
         equity_after  |-> initial_capital + SumTo(pnls, k)]]

\* The bar loop of the first trial of the first window, or of its
\* out-of-sample run, has ended
InitMetrics ==
    /\ data = QuietRows(0, WFLen)
    /\ in_sample_bars = InSampleLen /\ out_sample_bars = OutSampleLen
    /\ step_size = 1
    /\ param_grid = StopGrid
    /\ window_start = 0 /\ window_num = 1
    /\ span = WindowBounds(0)
    /\ all_windows = <<>> /\ oos_trades = <<>>
    /\ phase \in {"is", "oos"}
    /\ frame = IF phase = "is" THEN is_data(span) ELSE oos_data(span)
    /\ pc = "wf_bar"
    /\ idx = FrameLen(frame)
    /\ \E n \in 0..MaxTrades : \E pnls \in [1..n -> MetricPnls] :
          /\ run_trades = TradeList(pnls, frame)
          /\ trades = run_trades
          /\ account_value = initial_capital + SumTo(pnls, Len(pnls))
          /\ opened = Len(pnls)
    /\ current_position = NoPos
    /\ equity_curve = <<>>
    /\ strategy = SetParams(NewStrategy, param_combinations(param_grid)[1])
    /\ lastCall = NoCall
    /\ error = "none"
    /\ run_no = 0 /\ first_trades = <<>> /\ first_equity = <<>>
    /\ trial = IF phase = "is" THEN 1 ELSE Len(param_combinations(param_grid)) + 1
    /\ best_score = IF phase = "is" THEN NegInf ELSE [num |-> 0, den |-> 10]
    /\ best_params = IF phase = "is" THEN <<>> ELSE <<param_combinations(param_grid)[1]>>
    /\ tested = IF phase = "is" THEN <<param_combinations(param_grid)[1]>>
                ELSE param_combinations(param_grid)
    /\ scores = IF phase = "is" THEN <<>>
                ELSE [n \in 1..Len(param_combinations(param_grid)) |->
                         [num |-> 0, den |-> 10]]

NextMetrics == TrialEnd \/ OosEnd

SpecMetrics == InitMetrics /\ [][NextMetrics]_vars

----------------------------------------------------------------------------
(* The selection of _optimize_parameters, for the scores its trials can    *)
(* hand to the comparison: the bar loop and the metrics of a trial are     *)
(* taken as one step that yields a score.                                  *)

\* Scores of a trial: finite ones, and -inf and nan, which
\* _calculate_fitness_score gives when the pnl sum of the trial is -inf
\* (a loss beyond the float range) or inf - inf
TrialScores == {NegInf, NaNScore, [num |-> -1920, den |-> 10],
                [num |-> 8826720, den |-> 14400]}

\* _optimize_parameters is entered for the first window
InitSelect ==
    /\ data = QuietRows(0, WFLen)
    /\ in_sample_bars = InSampleLen /\ out_sample_bars = OutSampleLen
    /\ step_size = 1
    /\ param_grid \in {StopGrid, CubeGrid}
    /\ window_start = 0 /\ window_num = 1
    /\ span = WindowBounds(0)
    /\ all_windows = <<>> /\ oos_trades = <<>>
    /\ phase = "none"
    /\ frame = [lo |-> 0, hi |-> 0]
    /\ pc = "wf_opt"
    /\ idx = 0
    /\ run_trades = <<>>
    /\ NewEngine
    /\ run_no = 0 /\ first_trades = <<>> /\ first_equity = <<>>
    /\ trial = 1 /\ best_score = NegInf /\ best_params = <<>>
    /\ tested = <<>> /\ scores = <<>>

\* One iteration of the loop over param_combinations: the parameters are
\* set, the trial yields a score, and the score is compared with best_score
TrialScored ==
    /\ pc = "wf_opt"
    /\ trial <= Len(param_combinations(param_grid))
    /\ strategy' = SetParams(strategy, param_combinations(param_grid)[trial])
    /\ tested' = Append(tested, param_combinations(param_grid)[trial])
    /\ \E score \in TrialScores :
          /\ IF ScoreGT(score, best_score)
             THEN /\ best_score' = score
                  /\ best_params' = <<param_combinations(param_grid)[trial]>>
             ELSE UNCHANGED <<best_score, best_params>>
          /\ scores' = Append(scores, score)
    /\ trial' = trial + 1
    /\ UNCHANGED <<data, frame, pc, idx, error, account_value, current_position,
                   trades, equity_curve, lastCall, opened, harnessVars, cfgVars,
                   scanVars, phase, run_trades>>

\* _optimize_parameters returns None for best_params:
\* best_params.items() raises AttributeError
BestParamsNone ==
    /\ pc = "wf_opt"
    /\ trial > Len(param_combinations(param_grid))
    /\ best_params = <<>>
    /\ pc' = "error"
    /\ error' = "AttributeError"
    /\ UNCHANGED <<data, frame, idx, engVars, harnessVars, wfVars>>

NextSelect == TrialScored \/ OosStart \/ BestParamsNone

SpecSelect == InitSelect /\ [][NextSelect]_vars

----------------------------------------------------------------------------
(* Properties of the walk-forward optimizer (SpecWF) *)

\* a sub-run (a grid-search trial or the out-of-sample run) is about to
\* process its first bar
SubRunStart == pc = "wf_bar" /\ idx = 0

\* C3: a should_enter / should_exit call at bar index i reads only rows
\* 0..i of the series it is given.
C3_NoLookAhead == lastCall.rows \subseteq 0..lastCall.idx

\* C5: every in-sample trial and every out-of-sample run starts with
\* account_value equal to initial_capital.
C5_FreshAccount == SubRunStart => account_value = initial_capital

\* C6: every in-sample trial and every out-of-sample run starts with no open
\* position; a position open after the last bar of a sub-run is closed as
\* end_of_data inside it.
C6_NoPositionAcrossSubRuns == SubRunStart => ~IsOpen(current_position)

ValidConfig == in_sample_bars > 0 /\ out_sample_bars > 0 /\ step_size > 0

FittingStarts ==
    {k \in 0..Len(data) : k * step_size + in_sample_bars + out_sample_bars <= Len(data)}

\* C9: the recorded windows are numbered 1, 2, ... and start at 0, step_len,
\* 2*step_len, ...; each fits the series (its OOS span ends at or before the
\* last bar); when the scan has ended every fitting start has its window.
C9_RollingScan ==
    /\ \A n \in 1..Len(all_windows) :
           /\ all_windows[n].window = n
           /\ all_windows[n].is_start = (n - 1) * step_size
           /\ (n - 1) * step_size + in_sample_bars + out_sample_bars <= Len(data)
           /\ all_windows[n].oos_end <= Len(data) - 1
    /\ (pc = "done" /\ ValidConfig) => Len(all_windows) = Cardinality(FittingStarts)

C9_Witness ==
    /\ pc = "done"
    /\ Len(all_windows) = 2
    /\ all_windows[2].is_start = 1

\* the grid search of the current window is over and its out-of-sample run
\* has started
GridSearched == phase = "oos" /\ pc \in {"wf_bar", "wf_head", "done"}

\* the product of the lengths of the value lists
RECURSIVE GridSize(_)
GridSize(grid) == IF grid = <<>> THEN 1 ELSE Len(grid[1][2]) * GridSize(Tail(grid))

\* the sum of the lengths of the value lists
RECURSIVE GridSum(_)
GridSum(grid) == IF grid = <<>> THEN 0 ELSE Len(grid[1][2]) + GridSum(Tail(grid))

\* the points of the Cartesian product of the value lists
GridPoints(grid) ==
    LET keys == {grid[j][1] : j \in 1..Len(grid)}
        vals == UNION {{grid[j][2][v] : v \in 1..Len(grid[j][2])} : j \in 1..Len(grid)}
    IN  {pt \in [keys -> vals] :
            \A j \in 1..Len(grid) :
                \E v \in 1..Len(grid[j][2]) : pt[grid[j][1]] = grid[j][2][v]}

\* C15: the trials of a window's grid search are run on distinct points of
\* the Cartesian product of the value lists, and when the grid search is over
\* every point has had its trial: as many trials as the product of the list
\* lengths.
C15_ExhaustiveGrid ==
    /\ \A m, n \in 1..Len(tested) : tested[m] = tested[n] => m = n
    /\ \A n \in 1..Len(tested) : tested[n] \in GridPoints(param_grid)
    /\ GridSearched =>
          /\ Len(tested) = GridSize(param_grid)
          /\ {tested[n] : n \in 1..Len(tested)} = GridPoints(param_grid)

\* a 2x2x2 grid has been searched in 8 trials, not 6
C15_Witness ==
    /\ GridSearched /\ pc = "wf_bar"
    /\ Len(param_grid) = 3
    /\ GridSize(param_grid) = 8 /\ GridSum(param_grid) = 6
    /\ Len(tested) = 8 /\ Len(scores) = 8

\* C16: after every trial of a grid search, best_params and best_score are
\* the combination and the score of the first trial whose score no trial so
\* far exceeds; so _optimize_parameters returns the combination with the
\* greatest score, the first in enumeration order among equals.
C16_BestParameterSelection ==
    (pc = "wf_opt" /\ scores # <<>>) =>
        \E k \in 1..Len(scores) :
            /\ best_params = <<tested[k]>>
            /\ best_score = scores[k]
            /\ \A j \in 1..Len(scores) : ~ScoreGT(scores[j], scores[k])
            /\ \A j \in 1..(k - 1) : ScoreGT(scores[k], scores[j])

\* a finished grid search of 8 trials won by a trial that is not the first,
\* with a later trial scoring the same
C16_Witness ==
    /\ pc = "wf_opt" /\ Len(scores) = 8
    /\ \E k \in 2..7 :
          /\ best_params = <<tested[k]>>
          /\ \E j \in (k + 1)..8 : scores[j] = scores[k]

\* C17: an exception raised by the engine run of a grid-search trial does not
\* leave the grid search: the trial scores -infinity, the other combinations
\* are run and the scan goes on.
C17_TrialFailureAbsorbed == phase = "is" => (pc # "error" /\ error = "none")

\* The bar loop of _run_single_backtest from bar i on, as a function of the
\* engine state it starts from: the local trades list and the account value
\* at the end of the slice; failed: _enter_trade raised
RECURSIVE SubRunFrom(_, _, _, _, _, _)
SubRunFrom(f, i, st, pos, account, ts) ==
    IF i = FrameLen(f) THEN [trades |-> ts, account |-> account, failed |-> FALSE]
    ELSE IF IsOpen(pos)
         THEN LET reason == should_exit(st, f, i, pos)
                  st2    == ExitMemory(st, ILoc(f, i), pos)
              IN  IF reason # "none"
                  THEN SubRunFrom(f, i + 1, st2, NoPos,
                                  account + pnl(f, i, pos, reason),
                                  Append(ts, ReturnedTrade(f, i, pos, reason, account)))
                  ELSE SubRunFrom(f, i + 1, st2, pos, account, ts)
    ELSE IF should_enter(f, i)
         THEN IF SizeFails(st, ILoc(f, i))
              THEN [trades |-> ts, account |-> account, failed |-> TRUE]
              ELSE SubRunFrom(f, i + 1, EnterMemory(st, f, i),
                              EnteredPosition(st, f, i, account), account, ts)
    ELSE SubRunFrom(f, i + 1, EnterMemory(st, f, i), pos, account, ts)

\* _run_single_backtest(slice, params) on an engine that has run nothing
\* before: a new Strategy, no position, account_value = initial_capital.
\* Its first WarmUpBars bars change nothing (no position is open and
\* should_enter returns False), so the loop is taken up after them.
FreshRun(f, params) ==
    SubRunFrom(f, Min(WarmUpBars, FrameLen(f)), SetParams(NewStrategy, params),
               NoPos, initial_capital, <<>>)

\* C18: the trades and the score a grid-search trial obtains are those the
\* same combination obtains on the same slice when it is run alone: they do
\* not depend on the trials run before it.
C18_TrialIndependence ==
    (pc = "wf_opt" /\ scores # <<>>) =>
        LET alone == FreshRun(is_data(span), tested[Len(scores)])
        IN  /\ ~alone.failed
            /\ run_trades = alone.trades
            /\ scores[Len(scores)] = fitness_score(Results(alone.trades, alone.account))

\* the series is shorter than one window
ZeroWindows == Len(data) < in_sample_bars + out_sample_bars

\* C27: when len(bars) < in_sample_len + out_sample_len, run_walk_forward
\* runs no sub-run (no trial, no strategy call, no entry), records no Window
\* and no out-of-sample trade, and from the head of the scan goes on to the
\* summary and returns without an error; the summary counts 0 trades and a
\* pnl of 0.
C27_ZeroWindowsAllowed ==
    ZeroWindows =>
        /\ all_windows = <<>> /\ oos_trades = <<>>
        /\ tested = <<>> /\ run_trades = <<>> /\ trades = <<>>
        /\ opened = 0 /\ lastCall = NoCall
        /\ error = "none" /\ pc \in {"wf_head", "done"}
        /\ pc = "wf_head" => ENABLED ScanEnd
        /\ pc = "done" => /\ Summary(all_windows).total_oos_trades = 0
                          /\ Summary(all_windows).total_oos_pnl = 0
                          /\ Summary(all_windows).return_pct.den # 0

\* run_walk_forward has returned on a series one bar short of a window
C27_Witness ==
    /\ pc = "done" /\ error = "none"
    /\ Len(data) = in_sample_bars + out_sample_bars - 1
    /\ in_sample_bars > 0 /\ out_sample_bars > 0 /\ step_size > 0
    /\ all_windows = <<>>
    /\ Summary(all_windows).avg_oos_win_rate.den = 0

\* the out-of-sample trade lists of the recorded windows, in window order
RECURSIVE WindowTrades(_)
WindowTrades(ws) ==
    IF ws = <<>> THEN <<>> ELSE ws[1].oos_results.trades \o WindowTrades(Tail(ws))

\* C28: after any number of windows the combined out-of-sample log is the
\* concatenation, in window order, of the windows' out-of-sample trade lists,
\* and the summary's trade count and pnl are its length and the sum of its
\* pnl; the log changes only when an out-of-sample run ends, by the list that
\* run returned: what an in-sample trial returns never enters it.
C28_CombinedOosLog ==
    /\ [](/\ oos_trades = WindowTrades(all_windows)
          /\ Summary(all_windows).total_oos_trades = Len(oos_trades)
          /\ Summary(all_windows).total_oos_pnl = SumPnl(oos_trades))
    /\ [][oos_trades' # oos_trades =>
             /\ phase = "oos" /\ pc = "wf_bar" /\ pc' = "wf_head"
             /\ oos_trades' = oos_trades \o run_trades
             /\ Len(all_windows') = Len(all_windows) + 1]_vars

\* two windows of a scan that rolls by one bar are recorded, the first with
\* out-of-sample trades, and the in-sample trials have closed trades as well
C28_Witness ==
    /\ Len(all_windows) = 2 /\ step_size = 1
    /\ all_windows[1].oos_results.trades # <<>>
    /\ oos_trades # <<>>
    /\ Len(trades) > Len(oos_trades)
    /\ Summary(all_windows).total_oos_pnl # 0

----------------------------------------------------------------------------
(* Properties of the metrics of a sub-run (SpecMetrics) *)

\* sum of the pnl of the winning trades (pnl > 0)
RECURSIVE WinSum(_)
WinSum(ts) ==
    IF ts = <<>> THEN 0
    ELSE (IF ts[1].pnl > 0 THEN ts[1].pnl ELSE 0) + WinSum(Tail(ts))

\* minus the sum of the pnl of the losing trades (pnl <= 0)
RECURSIVE LossSum(_)
LossSum(ts) ==
    IF ts = <<>> THEN 0
    ELSE (IF ts[1].pnl <= 0 THEN -ts[1].pnl ELSE 0) + LossSum(Tail(ts))

LossCount(ts) == Cardinality({n \in 1..Len(ts) : ts[n].pnl <= 0})

WinCount(ts) == Cardinality({n \in 1..Len(ts) : ts[n].pnl > 0})

\* the ratio pf is exactly 0 (a denominator of 0 is a division by zero)
IsZero(pf) == pf.num = 0 /\ pf.den > 0

\* the ratio pf is exactly w / l, for l > 0
IsRatio(pf, w, l) == pf.den > 0 /\ pf.num * l = w * pf.den

\* The statement of C25 as written: the ratio whenever there is a losing
\* trade, 0 when there is none.
C25_AsClaimed ==
    \A n \in 1..Len(all_windows) :
        LET r == all_windows[n].oos_results IN
        IF LossCount(r.trades) >= 1
        THEN LossSum(r.trades) > 0
             /\ IsRatio(r.profit_factor, WinSum(r.trades), LossSum(r.trades))
        ELSE IsZero(r.profit_factor)

\* C25: profit_factor of a sub-run's trade list is |sum of winning pnl / sum
\* of losing pnl| when the losing pnl do not sum to 0; it is 0 when there is
\* no losing trade and when every losing trade has pnl 0 (the division by
\* zero is not attempted): every trade list gets a value, a ratio with a
\* positive denominator.
C25_ProfitFactor ==
    \A n \in 1..Len(all_windows) :
        LET r == all_windows[n].oos_results IN
        /\ r.profit_factor.den > 0
        /\ IF LossSum(r.trades) > 0
           THEN IsRatio(r.profit_factor, WinSum(r.trades), LossSum(r.trades))
           ELSE IsZero(r.profit_factor)

\* a recorded sub-run with a winner, a loser and a trade of pnl 0, and with
\* a profit factor that is not 0
C25_Witness ==
    /\ Len(all_windows) = 1
    /\ LET r == all_windows[1].oos_results IN
          /\ Len(r.trades) = 3
          /\ WinCount(r.trades) = 1
          /\ \E n \in 1..3 : r.trades[n].pnl = 0
          /\ \E n \in 1..3 : r.trades[n].pnl < 0
          /\ r.profit_factor.num > 0

\* a / b = c / d for b > 0 and d > 0
RatEq(a, b, c, d) == ~RatGT(a, b, c, d) /\ ~RatGT(c, d, a, b)

\* 0.4*total_pnl + 0.3*profit_factor*1000 + 0.2*win_rate*10 + 0.1*trade_count
\* of a trade list, as a ratio: total_pnl is the sum of the pnl, profit_factor
\* the ratio of the winning to the losing sum (0 when the losing sum is 0),
\* win_rate the percentage of trades with pnl > 0 (0 for no trade)
WeightedScore(ts) ==
    LET n  == Max(Len(ts), 1)
        l  == IF LossSum(ts) > 0 THEN LossSum(ts) ELSE 1
        w  == IF LossSum(ts) > 0 THEN WinSum(ts) ELSE 0
    IN  [num |-> (4 * (WinSum(ts) - LossSum(ts)) + Len(ts)) * l * n
                 + 3000 * w * n
                 + 20 * 100 * WinCount(ts) * l,
         den |-> 10 * l * n]

\* C26: the score of a finished trial is 0.4*total_pnl +
\* 0.3*profit_factor*1000 + 0.2*win_rate*10 + 0.1*trade_count of the trades
\* of its sub-run, and a sub-run with no trades scores exactly 0.
C26_FitnessScore ==
    (pc = "wf_opt" /\ scores # <<>>) =>
        LET score == scores[Len(scores)] IN
        /\ score.den > 0
        /\ RatEq(score.num, score.den,
                 WeightedScore(run_trades).num, WeightedScore(run_trades).den)
        /\ run_trades = <<>> => score.num = 0

\* a trial with a winning, a losing and a zero-pnl trade has been scored:
\* 0.4*240 + 0.3*1500 + 0.2*333.3 + 0.1*3 = 8826720 / 14400
C26_Witness ==
    /\ pc = "wf_opt" /\ Len(scores) = 1
    /\ Len(run_trades) = 3
    /\ run_trades[1].pnl = 720 /\ run_trades[2].pnl = -480 /\ run_trades[3].pnl = 0
    /\ scores[1] = [num |-> 8826720, den |-> 14400]

\* the step is a should_exit call that is the first of its sub-run or the
\* first since the position was opened
FirstExitCheck ==
    /\ pc \in {"run", "wf_bar"}
    /\ IsOpen(current_position)
    /\ idx' = idx + 1
    /\ (idx = 0 \/ lastCall.fn # "should_exit")

\* C24: the first should_exit call of a run, and the first of a position,
\* finds highest_profit at 0: it never starts from a high-water mark that an
\* earlier run or an earlier position produced.
C24_MemoryReset == [][FirstExitCheck => strategy.highest_profit = 0]_vars

\* C33: the rolling scan ends, with the summary or with an exception, and
\* every iteration of it moves window_start strictly forward.
C33_ScanTerminates ==
    /\ <>(pc \in {"done", "error"})
    /\ [][all_windows' # all_windows => window_start' > window_start]_vars

\* C34: when the trials of a grid search are over, best_params is one of the
\* combinations of the grid and not None, whatever the scores were, so the
\* out-of-sample run and the window record have a parameter set.
C34_BestParamsInGrid ==
    (/\ pc \in {"wf_opt", "wf_bar", "error"}
     /\ param_combinations(param_grid) # <<>>
     /\ trial > Len(param_combinations(param_grid))) =>
        /\ best_params # <<>>
        /\ \E k \in 1..Len(param_combinations(param_grid)) :
              best_params[1] = param_combinations(param_grid)[k]
        /\ error # "AttributeError"

\* C35: every trade of a recorded window's out-of-sample result was entered
\* and closed on a bar of that window's out-of-sample span (oos_start and
\* oos_end of the record are the labels of its first and last bar).
C35_OosTradesInSpan ==
    \A w \in 1..Len(all_windows) :
        LET rec == all_windows[w] IN
        \A n \in 1..Len(rec.oos_results.trades) :
            LET t == rec.oos_results.trades[n] IN
            /\ rec.oos_start <= t.entry_time /\ t.entry_time <= rec.oos_end
            /\ rec.oos_start <= t.exit_time /\ t.exit_time <= rec.oos_end

\* the attributes of the strategy that param_grid names
GridAttributes == {param_grid[k][1] : k \in 1..Len(param_grid)} \cap DOMAIN strategy

\* C36: in every state of the out-of-sample run of a window, from its first
\* bar to the record of the window, each attribute of the shared strategy
\* that param_grid names holds the value it has in the window's best_params.
C36_OosUsesBestParams ==
    (pc = "wf_bar" /\ phase = "oos") =>
        /\ best_params # <<>>
        /\ GridAttributes # {}
        /\ \A a \in GridAttributes : strategy[a] = best_params[1][a]

\* the out-of-sample run of the second window is under way, the last trial of
\* its grid search was not the best one, and the strategy has evaluated an
\* exit or an entry past the warm-up
C36_Witness ==
    /\ pc = "wf_bar" /\ phase = "oos" /\ window_num = 2
    /\ idx > WarmUpBars
    /\ best_params[1] # tested[Len(tested)]
    /\ \A a \in GridAttributes : strategy[a] = best_params[1][a]
    /\ \E a \in GridAttributes : strategy[a] # tested[Len(tested)][a]

\* C10: with in_sample_len <= 0, out_sample_len <= 0 or step_len <= 0 the
\* run fails with InvalidWindowConfig before any window is evaluated and no
\* Window is recorded.
C10_ConfigValidation ==
    ~ValidConfig =>
        /\ all_windows = <<>>
        /\ pc \in {"wf_head", "error"}
        /\ pc = "error" => error = "InvalidWindowConfig"

====
